---- MODULE Spec2Model ----
(***************************************************************************)
(* The three-rotor Enigma engine (Rotor, plugboardSwap, Enigma) of the     *)
(* repository, as a state machine.  Characters are one-character strings,  *)
(* JavaScript strings are sequences of them (a rotor keeps its wiring as   *)
(* the string itself, StringChars gives its characters).  JavaScript       *)
(* indexes from 0,                                                         *)
(* TLA+ sequences from 1: CharAt and indexOf do the conversion, and        *)
(* rotors[1], rotors[2], rotors[3] are the code's rotors[0] (left),        *)
(* rotors[1] (middle) and rotors[2] (right).                               *)
(***************************************************************************)
EXTENDS Integers, Sequences, FiniteSets, TLC

VARIABLES config, enigma, call, prev, last, key, thrown, unit

vars == <<config, enigma, call, prev, last, key, thrown, unit>>

(***************************************************************************)
(* Bounds of the model.                                                    *)
(***************************************************************************)
\* Every text over Chars of at most MaxLen characters is an input.
MaxLen == 3
\* Length of the long uppercase message (more than one right-rotor turn).
LongLen == 27
\* Number of letters given to encryptChar directly on one instance (SpecKeys).
MaxKeys == 12
\* Number of direct stepRotors calls on one instance (SpecStep).
MaxSteps == 1
\* Number of forward / backward calls in a row on one rotor (SpecRotor).
MaxRotorCalls == 2
\* Longest plugboard pair list (SpecPlug).
MaxPairs == 2
\* Number of plugboardSwap calls in a row (SpecPlug).
MaxSwaps == 2
\* Number of reflector lookups in a row (SpecReflector).
MaxLookups == 2

(***************************************************************************)
(* JavaScript primitives the engine uses.                                  *)
(***************************************************************************)
\* s[i] of JavaScript: the character at 0-based index i, undefined outside.
CharAt(s, i) == IF i >= 0 /\ i < Len(s) THEN s[i + 1] ELSE "undefined"

\* s.indexOf(c): 0-based index of the first occurrence, -1 when absent.
indexOf(s, c) ==
  LET hits == { k \in 1..Len(s) : s[k] = c }
  IN  IF hits = {} THEN -1
      ELSE (CHOOSE k \in hits : \A j \in hits : k <= j) - 1

\* s.includes(c)
includes(s, c) == indexOf(s, c) # -1

\* JavaScript's % : the remainder takes the sign of the dividend.
JsRem(n, m) == IF n >= 0 THEN n % m ELSE -((-n) % m)

\* mod as the bare remainder: negative for a negative dividend.
modRemainder(n, m) == JsRem(n, m)

mod(n, m) == JsRem(JsRem(n, m) + m, m)

\* Array.prototype.join(''), one element at a time: an undefined element
\* adds nothing to the string, any other element adds itself.
join(out, x) == IF x = "undefined" THEN out ELSE Append(out, x)

(***************************************************************************)
(* Tables.                                                                 *)
(***************************************************************************)
alphabet ==
  << "A","B","C","D","E","F","G","H","I","J","K","L","M",
     "N","O","P","Q","R","S","T","U","V","W","X","Y","Z" >>

\* The characters of a wiring string.
StringChars(str) ==
  CASE str = "EKMFLGDQVZNTOWYHXUSPAIBRCJ" ->
         << "E","K","M","F","L","G","D","Q","V","Z","N","T","O",
            "W","Y","H","X","U","S","P","A","I","B","R","C","J" >>
    [] str = "AJDKSIRUXBLHWTMCQGZNPYFVOE" ->
         << "A","J","D","K","S","I","R","U","X","B","L","H","W",
            "T","M","C","Q","G","Z","N","P","Y","F","V","O","E" >>
    [] str = "BDFHJLCPRTXVZNYEIWGAKMUSQO" ->
         << "B","D","F","H","J","L","C","P","R","T","X","V","Z",
            "N","Y","E","I","W","G","A","K","M","U","S","Q","O" >>

\* ROTORS[id] of the code is ROTORS[id + 1] here (see RotorSpec).
ROTORS ==
  << [wiring |-> "EKMFLGDQVZNTOWYHXUSPAIBRCJ", notch |-> "Q"],
     [wiring |-> "AJDKSIRUXBLHWTMCQGZNPYFVOE", notch |-> "E"],
     [wiring |-> "BDFHJLCPRTXVZNYEIWGAKMUSQO", notch |-> "V"] >>

\* The reflector table with its last two letters typed in the other order.
REFLECTORLastTwoSwapped ==
  << "Y","R","U","H","Q","S","L","D","P","X","N","G","O",
     "K","M","I","E","B","F","Z","C","W","V","J","T","A" >>

REFLECTOR ==
  << "Y","R","U","H","Q","S","L","D","P","X","N","G","O",
     "K","M","I","E","B","F","Z","C","W","V","J","A","T" >>

\* ROTORS[id] with the code's 0-based id.
RotorSpec(id) == ROTORS[id + 1]

\* ROTORS[id] is undefined: id is no index of the catalog.
NoRotorSpec(id) == id \notin 0..(Len(ROTORS) - 1)

\* What is left of a call that threw a TypeError (a property read or a
\* method call on undefined) instead of returning.
TypeErrorThrown == [threw |-> "TypeError"]

(***************************************************************************)
(* plugboardSwap: the first pair that holds c decides.                     *)
(***************************************************************************)
\* plugboardSwap without the second test: a pair swaps its first letter only.
RECURSIVE plugboardSwapOneWay(_, _)
plugboardSwapOneWay(c, pairs) ==
  IF pairs = << >> THEN c
  ELSE IF c = Head(pairs)[1] THEN Head(pairs)[2]
  ELSE plugboardSwapOneWay(c, Tail(pairs))

\* plugboardSwap scanning the pairs from the last one down.
RECURSIVE plugboardSwapLastFirst(_, _)
plugboardSwapLastFirst(c, pairs) ==
  IF pairs = << >> THEN c
  ELSE IF c = pairs[Len(pairs)][1] THEN pairs[Len(pairs)][2]
  ELSE IF c = pairs[Len(pairs)][2] THEN pairs[Len(pairs)][1]
  ELSE plugboardSwapLastFirst(c, SubSeq(pairs, 1, Len(pairs) - 1))

RECURSIVE plugboardSwap(_, _)
plugboardSwap(c, pairs) ==
  IF pairs = << >> THEN c
  ELSE IF c = Head(pairs)[1] THEN Head(pairs)[2]
  ELSE IF c = Head(pairs)[2] THEN Head(pairs)[1]
  ELSE plugboardSwap(c, Tail(pairs))

(***************************************************************************)
(* class Rotor                                                             *)
(***************************************************************************)
NewRotor(wiring, notch, ringSetting, position) ==
  [wiring |-> wiring, notch |-> notch,
   ringSetting |-> ringSetting, position |-> position]

\* step without the wrap at 26.
stepNoWrap(r) == [r EXCEPT !.position = r.position + 1]

\* step turning the ring along with the rotor.
stepWithRing(r) ==
  [r EXCEPT !.position = mod(r.position + 1, 26),
            !.ringSetting = mod(r.ringSetting + 1, 26)]

step(r) == [r EXCEPT !.position = mod(r.position + 1, 26)]

atNotch(r) == CharAt(alphabet, r.position) = r.notch

\* forward as it was before the ring-setting fix: the wiring's letter is
\* returned without the inverse offset.
forwardNoInverse(r, c) ==
  CharAt(StringChars(r.wiring), mod(indexOf(alphabet, c) + r.position - r.ringSetting, 26))

forward(r, c) ==
  LET inputPos   == mod(indexOf(alphabet, c) + r.position - r.ringSetting, 26)
      outputChar == CharAt(StringChars(r.wiring), inputPos)
      outputPos  == mod(indexOf(alphabet, outputChar) - r.position + r.ringSetting, 26)
  IN  CharAt(alphabet, outputPos)

\* backward as it was before the ring-setting fix: the letter is looked up
\* in the wiring without the offset on the way in.
backwardNoInputOffset(r, c) ==
  CharAt(alphabet, mod(indexOf(StringChars(r.wiring), c) - r.position + r.ringSetting, 26))

backward(r, c) ==
  LET inputPos  == mod(indexOf(alphabet, c) + r.position - r.ringSetting, 26)
      wiringPos == indexOf(StringChars(r.wiring), CharAt(alphabet, inputPos))
      outputPos == mod(wiringPos - r.position + r.ringSetting, 26)
  IN  CharAt(alphabet, outputPos)

(***************************************************************************)
(* class Enigma                                                            *)
(***************************************************************************)
\* a[i] passed to a parameter with the default 0: the default stands in
\* when a has no element i (the argument is undefined).
ArgOrDefault(a, i) == IF i <= Len(a) THEN a[i] ELSE 0

\* The constructor taking rotor I for an identifier outside the catalog.
NewEnigmaDefaultRotor(rotorIDs, rotorPositions, ringSettings, plugboardPairs) ==
  [rotors |-> [i \in 1..Len(rotorIDs) |->
                 LET id == IF NoRotorSpec(rotorIDs[i]) THEN 0 ELSE rotorIDs[i]
                 IN  NewRotor(RotorSpec(id).wiring,
                              RotorSpec(id).notch,
                              ArgOrDefault(ringSettings, i),
                              ArgOrDefault(rotorPositions, i))],
   plugboardPairs |-> plugboardPairs]

\* new Enigma(...): ROTORS[id].wiring throws when ROTORS[id] is undefined;
\* nothing else is looked at.
NewEnigma(rotorIDs, rotorPositions, ringSettings, plugboardPairs) ==
  IF \E i \in 1..Len(rotorIDs) : NoRotorSpec(rotorIDs[i])
  THEN TypeErrorThrown
  ELSE [rotors |-> [i \in 1..Len(rotorIDs) |->
                      NewRotor(RotorSpec(rotorIDs[i]).wiring,
                               RotorSpec(rotorIDs[i]).notch,
                               ArgOrDefault(ringSettings, i),
                               ArgOrDefault(rotorPositions, i))],
        plugboardPairs |-> plugboardPairs]

\* stepRotors moving the right rotor only.
stepRotorsRightOnly(e) ==
  IF Len(e.rotors) < 3 THEN TypeErrorThrown ELSE
  [e EXCEPT !.rotors = [e.rotors EXCEPT ![3] = step(e.rotors[3])]]

\* stepRotors as it was before the double-stepping fix: the middle rotor's
\* notch is looked at before any stepping only.
stepRotorsBeforeOnly(e) ==
  IF Len(e.rotors) < 3 THEN TypeErrorThrown ELSE
  LET middleAtNotch == atNotch(e.rotors[2])
      r1 == IF atNotch(e.rotors[3])
            THEN [e.rotors EXCEPT ![2] = step(e.rotors[2])]
            ELSE e.rotors
      r2 == IF middleAtNotch
            THEN [r1 EXCEPT ![1] = step(r1[1]), ![2] = step(r1[2])]
            ELSE r1
  IN  [e EXCEPT !.rotors = [r2 EXCEPT ![3] = step(r2[3])]]

\* this.rotors[1].atNotch() and this.rotors[2].atNotch() come before any
\* step: with fewer than three rotors the call throws and has changed nothing.
stepRotors(e) ==
  IF Len(e.rotors) < 3 THEN TypeErrorThrown ELSE
  LET middleAtNotch == atNotch(e.rotors[2])
      r1 == IF atNotch(e.rotors[3])
            THEN [e.rotors EXCEPT ![2] = step(e.rotors[2])]
            ELSE e.rotors
      middleNowAtNotch == atNotch(r1[2])
      r2 == IF middleAtNotch \/ middleNowAtNotch
            THEN [r1 EXCEPT ![1] = step(r1[1]), ![2] = step(r1[2])]
            ELSE r1
  IN  [e EXCEPT !.rotors = [r2 EXCEPT ![3] = step(r2[3])]]

\* The first loop of encryptChar: forward through rotors[length-1] .. rotors[0].
\* c = this.rotors[i].forward(c) is a value (x) before the next iteration.
RECURSIVE ForwardFrom(_, _, _)
ForwardFrom(rotors, i, c) ==
  IF i < 1 THEN c
  ELSE CHOOSE r \in { ForwardFrom(rotors, i - 1, x) : x \in {forward(rotors[i], c)} } : TRUE

\* The first loop running from rotors[0] up: the left rotor first.
ForwardChainLeftFirst(rotors, c) ==
  ForwardFrom([i \in 1..Len(rotors) |-> rotors[Len(rotors) + 1 - i]],
              Len(rotors), c)

ForwardChain(rotors, c) == ForwardFrom(rotors, Len(rotors), c)

Reflect(c) == CharAt(REFLECTOR, indexOf(alphabet, c))

\* The second loop of encryptChar: backward through rotors[0] .. rotors[length-1].
RECURSIVE BackwardFrom(_, _, _)
BackwardFrom(rotors, i, c) ==
  IF i > Len(rotors) THEN c
  ELSE CHOOSE r \in { BackwardFrom(rotors, i + 1, x) : x \in {backward(rotors[i], c)} } : TRUE

BackwardChain(rotors, c) == BackwardFrom(rotors, 1, c)

\* A call on machine e that threw a TypeError: e as the call left it.
Threw(e) == [e |-> e, threw |-> "TypeError"]

\* encryptChar as it was before the plugboard fix: no swap on the way out.
encryptCharNoEgressSwap(e, c) ==
  IF ~includes(alphabet, c)
  THEN [e |-> e, c |-> c]
  ELSE IF stepRotors(e) = TypeErrorThrown THEN Threw(e)
  ELSE LET s  == stepRotors(e)
           c1 == plugboardSwap(c, s.plugboardPairs)
           c2 == ForwardChain(s.rotors, c1)
           c3 == Reflect(c2)
       IN  [e |-> s, c |-> BackwardChain(s.rotors, c3)]

lowercase ==
  << "a","b","c","d","e","f","g","h","i","j","k","l","m",
     "n","o","p","q","r","s","t","u","v","w","x","y","z" >>

toUpperCase(c) ==
  IF includes(lowercase, c) THEN CharAt(alphabet, indexOf(lowercase, c)) ELSE c

\* encryptChar on the uppercased character, as process did before the
\* lowercase fix.
encryptCharUpper(e, c) ==
  LET u == toUpperCase(c)
  IN  IF ~includes(alphabet, u)
      THEN [e |-> e, c |-> u]
      ELSE IF stepRotors(e) = TypeErrorThrown THEN Threw(e)
      ELSE LET s  == stepRotors(e)
               c1 == plugboardSwap(u, s.plugboardPairs)
               c2 == ForwardChain(s.rotors, c1)
               c3 == Reflect(c2)
               c4 == BackwardChain(s.rotors, c3)
           IN  [e |-> s, c |-> plugboardSwap(c4, s.plugboardPairs)]

\* encryptChar stepping the rotors before it looks at the character.
encryptCharStepFirst(e, c) ==
  LET s == stepRotors(e)
  IN  IF s = TypeErrorThrown THEN Threw(e)
      ELSE IF ~includes(alphabet, c)
      THEN [e |-> s, c |-> c]
      ELSE LET c1 == plugboardSwap(c, s.plugboardPairs)
               c2 == ForwardChain(s.rotors, c1)
               c3 == Reflect(c2)
               c4 == BackwardChain(s.rotors, c3)
           IN  [e |-> s, c |-> plugboardSwap(c4, s.plugboardPairs)]

\* encryptChar substituting first and stepping the rotors afterwards.
encryptCharStepLast(e, c) ==
  IF ~includes(alphabet, c)
  THEN [e |-> e, c |-> c]
  ELSE IF stepRotors(e) = TypeErrorThrown THEN Threw(e)
  ELSE LET c1 == plugboardSwap(c, e.plugboardPairs)
           c2 == ForwardChain(e.rotors, c1)
           c3 == Reflect(c2)
           c4 == BackwardChain(e.rotors, c3)
       IN  [e |-> stepRotors(e), c |-> plugboardSwap(c4, e.plugboardPairs)]

\* encryptChar(c) on machine e: the machine after the call and the
\* character returned, or Threw(e) when stepRotors threw.
encryptChar(e, c) ==
  IF ~includes(alphabet, c)
  THEN [e |-> e, c |-> c]
  ELSE IF stepRotors(e) = TypeErrorThrown THEN Threw(e)
  ELSE LET s  == stepRotors(e)
           c1 == plugboardSwap(c, s.plugboardPairs)
           c2 == ForwardChain(s.rotors, c1)
           c3 == Reflect(c2)
           c4 == BackwardChain(s.rotors, c3)
       IN  [e |-> s, c |-> plugboardSwap(c4, s.plugboardPairs)]

(***************************************************************************)
(* The inputs of the model: construction arguments and texts.              *)
(***************************************************************************)
Machines == {"A", "B"}

NoCall == [mach |-> "none"]

\* 0-based position of the notch letter of catalog rotor id.
NotchPos(id) == indexOf(alphabet, RotorSpec(id).notch)

RotorIDChoices == { <<0, 1, 2>>, <<2, 0, 1>> }

\* Start positions: the tests' [0,0,0] and [5,10,15], the right rotor at its
\* notch with the middle one below its own (the tests' [0,3,21] for rotors
\* I, II, III), and middle and right rotor both at their notches with the
\* left rotor about to wrap.
PositionChoices(ids) ==
  { <<0, 0, 0>>, <<5, 10, 15>>,
    <<0, mod(NotchPos(ids[2]) - 1, 26), NotchPos(ids[3])>>,
    <<25, NotchPos(ids[2]), NotchPos(ids[3])>> }

RingChoices == { <<0, 0, 0>>, <<3, 7, 11>> }

\* Two rotors, four rotors, and identifiers the catalog does not have.
BadRotorIDChoices == { <<0, 1>>, <<0, 1, 2, 1>>, <<0, 1, 3>>, <<-1, 1, 2>> }

\* No plugs and the tests' two pairs.
PlugboardChoices == { << >>, << <<"A", "B">>, <<"C", "D">> >> }

Chars == {"A", "Z", "a", "1"}

ShortTexts == UNION { [1..k -> Chars] : k \in 0..MaxLen }

\* An uppercase message of n letters.
LongText(n) == [k \in 1..n |-> CharAt(alphabet, (7 * k) % 26)]

FixedTexts ==
  { <<"1", "2", "3", "!", "@", "#">>,
    <<"H", "E", "L", "L", "O", "1", "2", "3", "!", "@", "#", "w", "o", "r", "l", "d">> }

Texts == ShortTexts \cup FixedTexts \cup {LongText(LongLen)}

Positions(e) == [i \in 1..Len(e.rotors) |-> e.rotors[i].position]

(***************************************************************************)
(* The state machine.  enigma[mach] is the Enigma instance mach; both      *)
(* instances are constructed with the same arguments (config).  call is    *)
(* the process call in progress, prev and last the first and the second    *)
(* completed call.  key is the last direct encryptChar call (SpecKeys).     *)
(* thrown is the last call that ended in an exception instead of a return.  *)
(* An instance whose construction threw is TypeErrorThrown: there is no    *)
(* object to call.                                                         *)
(***************************************************************************)
NoKey == [n |-> 0, c |-> "", out |-> ""]

\* unit is the function under a direct call in the specifications of the
\* single functions; no such call in the others.
NoUnit == [fn |-> "none"]

\* The constructor arguments of the model: every combination of the choices
\* above with a plugboard that names no letter twice, the plugboard that
\* names A twice, positions and ring settings outside [0,25], two and four
\* rotor identifiers, and identifiers outside the catalog (the constructor
\* takes its arguments as they come).
ConfigChoices ==
  UNION { { [rotorIDs |-> ids, rotorPositions |-> pos,
             ringSettings |-> rings, plugboardPairs |-> plugs] :
              pos \in PositionChoices(ids), rings \in RingChoices,
              plugs \in PlugboardChoices } : ids \in RotorIDChoices }
  \cup { [rotorIDs |-> <<0, 1, 2>>, rotorPositions |-> pos,
          ringSettings |-> <<3, 7, 11>>,
          plugboardPairs |-> << <<"A", "B">>, <<"A", "C">> >>] :
            pos \in PositionChoices(<<0, 1, 2>>) }
  \cup { [rotorIDs |-> <<0, 1, 2>>, rotorPositions |-> <<26, -1, 47>>,
          ringSettings |-> <<-3, 26, 0>>,
          plugboardPairs |-> << <<"A", "B">>, <<"C", "D">> >>] }
  \cup { [rotorIDs |-> ids, rotorPositions |-> [i \in 1..Len(ids) |-> 0],
          ringSettings |-> [i \in 1..Len(ids) |-> 0],
          plugboardPairs |-> << >>] : ids \in BadRotorIDChoices }

Constructed ==
  \E K \in ConfigChoices :
    /\ config = K
    /\ enigma = [m \in Machines |->
                   NewEnigma(K.rotorIDs, K.rotorPositions,
                             K.ringSettings, K.plugboardPairs)]

Init ==
  /\ Constructed
  /\ call = NoCall
  /\ prev = NoCall
  /\ last = NoCall
  /\ key = NoKey
  /\ thrown = NoCall
  /\ unit = NoUnit

\* The rotors held in one place that every instance shares.
SetInstanceShared(es, mach, e) == [m \in DOMAIN es |-> e]

\* this.rotors belongs to the instance: a call on mach writes mach only.
SetInstance(es, mach, e) == [es EXCEPT ![mach] = e]

\* process(text) is entered: text.split('') and nothing else.  Nobody
\* catches an exception: after one there is no further call.
Enter(mach, text) ==
  /\ enigma[mach] # TypeErrorThrown
  /\ thrown = NoCall
  /\ call' = [mach |-> mach, text |-> text, i |-> 0, out |-> << >>,
              start |-> Positions(enigma[mach])]
  /\ UNCHANGED <<config, enigma, prev, last, key, thrown, unit>>

\* The first process call, on either instance.
ProcessStart ==
  /\ call = NoCall /\ prev = NoCall
  /\ \E mach \in Machines, text \in Texts : Enter(mach, text)

\* A second process call, on either instance: the same text again, or the
\* output of the first call.
ProcessAgain ==
  /\ call = NoCall /\ prev # NoCall /\ last = NoCall
  /\ \E mach \in Machines, text \in {prev.text, prev.out} : Enter(mach, text)

\* One iteration of the map in process: encryptChar on the next character.
\* An exception of encryptChar leaves map and process: the call is over and
\* has returned nothing.
EncryptChar ==
  /\ call # NoCall
  /\ call.i < Len(call.text)
  /\ \E r \in { encryptChar(enigma[call.mach], CharAt(call.text, call.i)) } :
         IF r = Threw(enigma[call.mach])
         THEN /\ thrown' = [mach |-> call.mach, text |-> call.text,
                            at |-> call.i, threw |-> r.threw]
              /\ call' = NoCall
              /\ UNCHANGED enigma
         ELSE /\ enigma' = SetInstance(enigma, call.mach, r.e)
              /\ call' = [call EXCEPT !.i = @ + 1, !.out = join(@, r.c)]
              /\ UNCHANGED thrown
  /\ UNCHANGED <<config, prev, last, key, unit>>

\* process putting the rotors back where the call found them.
ProcessReturnReset ==
  /\ call # NoCall
  /\ call.i = Len(call.text)
  /\ LET done == [mach |-> call.mach, text |-> call.text, out |-> call.out,
                  start |-> call.start, end |-> Positions(enigma[call.mach])]
     IN  IF prev = NoCall
         THEN prev' = done /\ UNCHANGED last
         ELSE last' = done /\ UNCHANGED prev
  /\ call' = NoCall
  /\ enigma' = [enigma EXCEPT ![call.mach].rotors =
                  [i \in 1..Len(@) |-> [@[i] EXCEPT !.position = call.start[i]]]]
  /\ UNCHANGED <<config, key, thrown, unit>>

\* process returns the joined output.
ProcessReturn ==
  /\ call # NoCall
  /\ call.i = Len(call.text)
  /\ LET done == [mach |-> call.mach, text |-> call.text, out |-> call.out,
                  start |-> call.start, end |-> Positions(enigma[call.mach])]
     IN  IF prev = NoCall
         THEN prev' = done /\ UNCHANGED last
         ELSE last' = done /\ UNCHANGED prev
  /\ call' = NoCall
  /\ UNCHANGED <<config, enigma, key, thrown, unit>>

Next == ProcessStart \/ ProcessAgain \/ EncryptChar \/ ProcessReturn

Spec == Init /\ [][Next]_vars

(***************************************************************************)
(* The keyboard: encryptChar called directly on instance A, one character  *)
(* at a time, as the stepping tests do.                                    *)
(***************************************************************************)
KeyChars == { alphabet[k] : k \in 1..Len(alphabet) } \cup {"a", "1"}

\* key.n counts the letters among the keys so far.
Key(c) ==
  /\ enigma["A"] # TypeErrorThrown
  /\ thrown = NoCall
  /\ key.n < MaxKeys
  /\ \E r \in { encryptChar(enigma["A"], c) } :
         IF r = Threw(enigma["A"])
         THEN /\ thrown' = [mach |-> "A", text |-> <<c>>,
                            at |-> 0, threw |-> r.threw]
              /\ UNCHANGED <<enigma, key>>
         ELSE /\ enigma' = SetInstance(enigma, "A", r.e)
              /\ key' = [n |-> IF includes(alphabet, c) THEN key.n + 1 ELSE key.n,
                         c |-> c, out |-> r.c]
              /\ UNCHANGED thrown
  /\ UNCHANGED <<config, call, prev, last, unit>>

NextKeys == \E c \in KeyChars : Key(c)

SpecKeys == Init /\ [][NextKeys]_vars

(***************************************************************************)
(* stepRotors called directly on instance A, from every position tuple of  *)
(* [0,25]^3 under every selection of three catalog rotors.                 *)
(***************************************************************************)
CatalogIDs == 0..(Len(ROTORS) - 1)

PositionRange == 0..25

\* Construction with the arguments K.
ConstructedWith(K) ==
  /\ config = K
  /\ enigma = [m \in Machines |->
                 NewEnigma(K.rotorIDs, K.rotorPositions,
                           K.ringSettings, K.plugboardPairs)]

InitStep ==
  /\ \E ids \in CatalogIDs \X CatalogIDs \X CatalogIDs,
        pos \in PositionRange \X PositionRange \X PositionRange :
        ConstructedWith([rotorIDs |-> ids, rotorPositions |-> pos,
                         ringSettings |-> <<0, 0, 0>>, plugboardPairs |-> << >>])
  /\ call = NoCall /\ prev = NoCall /\ last = NoCall
  /\ key = NoKey /\ thrown = NoCall
  /\ unit = [fn |-> "stepRotors", n |-> 0, before |-> << >>]

\* One call of stepRotors; unit.before is the position tuple it started from.
StepRotors ==
  /\ unit.fn = "stepRotors"
  /\ unit.n < MaxSteps
  /\ enigma' = SetInstance(enigma, "A", stepRotors(enigma["A"]))
  /\ unit' = [unit EXCEPT !.n = @ + 1, !.before = Positions(enigma["A"])]
  /\ UNCHANGED <<config, call, prev, last, key, thrown>>

NextStep == StepRotors

SpecStep == InitStep /\ [][NextStep]_vars

(***************************************************************************)
(* One Rotor on its own: each catalog rotor with every ring setting and    *)
(* position of [0,25], a letter, and forward and backward called on it in  *)
(* any order, each call on the letter the call before returned.            *)
(***************************************************************************)
InitRotor ==
  /\ ConstructedWith([rotorIDs |-> <<0, 1, 2>>, rotorPositions |-> <<0, 0, 0>>,
                      ringSettings |-> <<0, 0, 0>>, plugboardPairs |-> << >>])
  /\ call = NoCall /\ prev = NoCall /\ last = NoCall
  /\ key = NoKey /\ thrown = NoCall
  /\ \E id \in CatalogIDs, ring \in PositionRange, pos \in PositionRange,
        k \in 0..(Len(alphabet) - 1) :
        unit = [fn |-> "Rotor",
                rotor |-> NewRotor(RotorSpec(id).wiring, RotorSpec(id).notch,
                                   ring, pos),
                c |-> CharAt(alphabet, k), calls |-> << >>,
                out |-> CharAt(alphabet, k)]

\* this.forward(c): returns a letter, assigns nothing.
Forward ==
  /\ unit.fn = "Rotor"
  /\ Len(unit.calls) < MaxRotorCalls
  /\ unit' = [unit EXCEPT !.calls = Append(@, "forward"),
                          !.out = forward(unit.rotor, @)]
  /\ UNCHANGED <<config, enigma, call, prev, last, key, thrown>>

\* this.backward(c): returns a letter, assigns nothing.
Backward ==
  /\ unit.fn = "Rotor"
  /\ Len(unit.calls) < MaxRotorCalls
  /\ unit' = [unit EXCEPT !.calls = Append(@, "backward"),
                          !.out = backward(unit.rotor, @)]
  /\ UNCHANGED <<config, enigma, call, prev, last, key, thrown>>

NextRotor == Forward \/ Backward

SpecRotor == InitRotor /\ [][NextRotor]_vars

(***************************************************************************)
(* The plugboard on its own: a machine constructed with any list of at     *)
(* most MaxPairs pairs over PlugLetters (a letter may stand in several     *)
(* pairs, or twice in one), and plugboardSwap called with the machine's    *)
(* pair list on a letter and then on the letter it returned.               *)
(***************************************************************************)
PlugLetters == {"A", "B", "C", "D"}

PairLists == UNION { [1..n -> PlugLetters \X PlugLetters] : n \in 0..MaxPairs }

InitPlug ==
  /\ \E pairs \in PairLists :
        ConstructedWith([rotorIDs |-> <<0, 1, 2>>, rotorPositions |-> <<0, 0, 0>>,
                         ringSettings |-> <<0, 0, 0>>, plugboardPairs |-> pairs])
  /\ call = NoCall /\ prev = NoCall /\ last = NoCall
  /\ key = NoKey /\ thrown = NoCall
  /\ \E k \in 0..(Len(alphabet) - 1) :
        unit = [fn |-> "plugboardSwap", c |-> CharAt(alphabet, k), n |-> 0,
                out |-> CharAt(alphabet, k)]

\* plugboardSwap(c, this.plugboardPairs)
PlugboardSwap ==
  /\ unit.fn = "plugboardSwap"
  /\ unit.n < MaxSwaps
  /\ unit' = [unit EXCEPT !.n = @ + 1,
                          !.out = plugboardSwap(@, enigma["A"].plugboardPairs)]
  /\ UNCHANGED <<config, enigma, call, prev, last, key, thrown>>

NextPlug == PlugboardSwap

SpecPlug == InitPlug /\ [][NextPlug]_vars

(***************************************************************************)
(* The reflector on its own: REFLECTOR[alphabet.indexOf(c)] looked up for  *)
(* a letter and then for the letter it returned, beside the machines of    *)
(* every configuration of the model.                                       *)
(***************************************************************************)
InitReflector ==
  /\ Constructed
  /\ call = NoCall /\ prev = NoCall /\ last = NoCall
  /\ key = NoKey /\ thrown = NoCall
  /\ \E k \in 0..(Len(alphabet) - 1) :
        unit = [fn |-> "REFLECTOR", c |-> CharAt(alphabet, k), n |-> 0,
                out |-> CharAt(alphabet, k)]

\* c = REFLECTOR[alphabet.indexOf(c)]: no field of the instance is read or
\* written.
ReflectorLookup ==
  /\ unit.fn = "REFLECTOR"
  /\ enigma["A"] # TypeErrorThrown
  /\ unit.n < MaxLookups
  /\ unit' = [unit EXCEPT !.n = @ + 1, !.out = Reflect(@)]
  /\ UNCHANGED <<config, enigma, call, prev, last, key, thrown>>

NextReflector == ReflectorLookup

SpecReflector == InitReflector /\ [][NextReflector]_vars

(***************************************************************************)
(* The endless keyboard: letters given to encryptChar on instance A        *)
(* without end.  The letters returned go nowhere, so a keystroke is what   *)
(* encryptChar does to the instance on a letter: its stepRotors call.      *)
(* unit.idle counts the keystrokes since the middle rotor last moved (it   *)
(* stops counting at 26).                                                  *)
(***************************************************************************)

\* Both rotor orders from [0,0,0], and rotors I, II, III with the middle and
\* the right rotor at their notches; every position tuple with the middle
\* rotor off its notch is on the way.
StreamStarts ==
  { <<ids, <<0, 0, 0>>>> : ids \in RotorIDChoices }
  \cup { << <<0, 1, 2>>, <<25, NotchPos(1), NotchPos(2)>> >> }

InitStream ==
  /\ \E st \in StreamStarts :
        \E ids \in {st[1]}, pos \in {st[2]} :
          ConstructedWith([rotorIDs |-> ids, rotorPositions |-> pos,
                           ringSettings |-> <<0, 0, 0>>,
                           plugboardPairs |-> << >>])
  /\ call = NoCall /\ prev = NoCall /\ last = NoCall
  /\ key = NoKey /\ thrown = NoCall
  /\ unit = [fn |-> "stream", idle |-> 0]

Keystroke ==
  /\ unit.fn = "stream"
  /\ stepRotors(enigma["A"]) # TypeErrorThrown
  /\ enigma' = SetInstance(enigma, "A", stepRotors(enigma["A"]))
  /\ unit' = [unit EXCEPT !.idle =
                IF stepRotors(enigma["A"]).rotors[2].position
                     # enigma["A"].rotors[2].position
                THEN 0
                ELSE IF @ < Len(alphabet) THEN @ + 1 ELSE @]
  /\ UNCHANGED <<config, call, prev, last, key, thrown>>

NextStream == Keystroke

\* The stream has no end: a keystroke that can be made is made.
SpecStream == InitStream /\ [][NextStream]_vars /\ WF_vars(NextStream)

(***************************************************************************)
(* A text in one call and in pieces.  Instance A is given a text m in one  *)
(* process call.  Instance B, constructed with the same arguments, is then *)
(* given either m without its characters outside A-Z, or a first part of m *)
(* and, in a further call, the rest.  unit.n counts the calls entered;     *)
(* unit.chunk keeps the call on the first part when the call on the rest   *)
(* is entered (last then takes the call on the rest).                      *)
(***************************************************************************)
CallChars == {"A", "Z", "1"}

CallTexts == UNION { [1..k -> CallChars] : k \in 0..MaxLen } \cup FixedTexts

\* text with every character outside A-Z removed.
StripNonLetters(text) ==
  LET AZ(c) == includes(alphabet, c) IN SelectSeq(text, AZ)

\* The first parts of text, the empty one and text itself included.
FirstParts(text) == { SubSeq(text, 1, k) : k \in 0..Len(text) }

\* text after its first part of n characters.
Rest(text, n) == SubSeq(text, n + 1, Len(text))

InitCalls ==
  /\ Constructed
  /\ call = NoCall /\ prev = NoCall /\ last = NoCall
  /\ key = NoKey /\ thrown = NoCall
  /\ unit = [fn |-> "process", n |-> 0, chunk |-> NoCall]

\* process(text) is entered on mach, as in Enter, and counted.
EnterCounted(mach, text) ==
  /\ enigma[mach] # TypeErrorThrown
  /\ thrown = NoCall
  /\ call' = [mach |-> mach, text |-> text, i |-> 0, out |-> << >>,
              start |-> Positions(enigma[mach])]
  /\ unit' = [unit EXCEPT !.n = @ + 1, !.chunk = last]
  /\ UNCHANGED <<config, enigma, prev, last, key, thrown>>

\* process(m) on instance A.
ProcessWhole ==
  /\ unit.fn = "process" /\ unit.n = 0
  /\ call = NoCall
  /\ \E text \in CallTexts : EnterCounted("A", text)

\* process on instance B, on the letters of m or on a first part of m.
ProcessFirstPart ==
  /\ unit.fn = "process" /\ unit.n = 1
  /\ call = NoCall /\ prev # NoCall
  /\ \E text \in FirstParts(prev.text) \cup {StripNonLetters(prev.text)} :
        EnterCounted("B", text)

\* process on instance B again, on the rest of m.
ProcessRest ==
  /\ unit.fn = "process" /\ unit.n = 2
  /\ call = NoCall /\ last # NoCall
  /\ last.text \in FirstParts(prev.text)
  /\ EnterCounted("B", Rest(prev.text, Len(last.text)))

NextCalls ==
  ProcessWhole \/ ProcessFirstPart \/ ProcessRest \/ EncryptChar \/ ProcessReturn

SpecCalls == InitCalls /\ [][NextCalls]_vars

(***************************************************************************)
(* Two callers.  Each caller has a message and gives it to encryptChar one *)
(* character at a time, in the order of the message; the steps of the two  *)
(* callers come in any order, each encryptChar call whole.  With           *)
(* unit.shared both callers call instance A; without, caller 1 calls       *)
(* instance A and caller 2 instance B.  unit.i[k] is the number of         *)
(* characters caller k has given, unit.out[k] what caller k has joined of  *)
(* the characters returned.                                                *)
(***************************************************************************)
Callers == {1, 2}

MaxSharedLen == 2

SharedChars == {"A", "Z", "1"}

SharedTexts == UNION { [1..k -> SharedChars] : k \in 0..MaxSharedLen }

\* Rotors I, II, III under the tests' ring settings and plugs.
SharedConfigs ==
  { K \in ConfigChoices :
      /\ K.rotorIDs = <<0, 1, 2>>
      /\ K.ringSettings = <<3, 7, 11>>
      /\ K.plugboardPairs = << <<"A", "B">>, <<"C", "D">> >> }

\* The instance that caller k calls.
InstanceOf(k) == IF unit.shared \/ k = 1 THEN "A" ELSE "B"

InitShared ==
  /\ \E K \in SharedConfigs : ConstructedWith(K)
  /\ call = NoCall /\ prev = NoCall /\ last = NoCall
  /\ key = NoKey /\ thrown = NoCall
  /\ \E shared \in BOOLEAN, t1 \in SharedTexts, t2 \in SharedTexts :
        unit = [fn |-> "callers", shared |-> shared, texts |-> <<t1, t2>>,
                i |-> <<0, 0>>, out |-> << << >>, << >> >>]

\* Caller k gives its next character to encryptChar of its instance.
CallerStep(k) ==
  /\ unit.fn = "callers"
  /\ thrown = NoCall
  /\ unit.i[k] < Len(unit.texts[k])
  /\ \E r \in { encryptChar(enigma[InstanceOf(k)],
                             CharAt(unit.texts[k], unit.i[k])) } :
         IF r = Threw(enigma[InstanceOf(k)])
         THEN /\ thrown' = [mach |-> InstanceOf(k), text |-> unit.texts[k],
                            at |-> unit.i[k], threw |-> r.threw]
              /\ UNCHANGED <<enigma, unit>>
         ELSE /\ enigma' = SetInstance(enigma, InstanceOf(k), r.e)
              /\ unit' = [unit EXCEPT !.i[k] = @ + 1, !.out[k] = join(@, r.c)]
              /\ UNCHANGED thrown
  /\ UNCHANGED <<config, call, prev, last, key>>

NextShared == \E k \in Callers : CallerStep(k)

SpecShared == InitShared /\ [][NextShared]_vars

\* process(text) as a function of the instance it is called on: the string
\* returned, after the first k characters have given out.
RECURSIVE processFrom(_, _, _, _)
processFrom(e, text, k, out) ==
  IF k >= Len(text) THEN out
  ELSE LET r == CHOOSE x \in { encryptChar(e, CharAt(text, k)) } : TRUE
       IN  IF r = Threw(e) THEN TypeErrorThrown
           ELSE processFrom(r.e, text, k + 1, join(out, r.c))

\* process(text) on an instance of its own, constructed with K.
ProcessAlone(K, text) ==
  processFrom(NewEnigma(K.rotorIDs, K.rotorPositions,
                        K.ringSettings, K.plugboardPairs), text, 0, << >>)

(***************************************************************************)
(* class TestEnigma of the test file: the constructor declares its own     *)
(* alphabet, mod, ROTORS, REFLECTOR, plugboardSwap and class Rotor, and    *)
(* keeps alphabet, plugboardSwap and REFLECTOR as fields of the instance   *)
(* (this.plugboardSwap is the constructor's plugboardSwap: it is called as *)
(* TestPlugboardSwap).                                                     *)
(***************************************************************************)
TestAlphabet ==
  << "A","B","C","D","E","F","G","H","I","J","K","L","M",
     "N","O","P","Q","R","S","T","U","V","W","X","Y","Z" >>

TestMod(n, m) == JsRem(JsRem(n, m) + m, m)

TestROTORS ==
  << [wiring |-> "EKMFLGDQVZNTOWYHXUSPAIBRCJ", notch |-> "Q"],
     [wiring |-> "AJDKSIRUXBLHWTMCQGZNPYFVOE", notch |-> "E"],
     [wiring |-> "BDFHJLCPRTXVZNYEIWGAKMUSQO", notch |-> "V"] >>

TestREFLECTOR ==
  << "Y","R","U","H","Q","S","L","D","P","X","N","G","O",
     "K","M","I","E","B","F","Z","C","W","V","J","A","T" >>

RECURSIVE TestPlugboardSwap(_, _)
TestPlugboardSwap(c, pairs) ==
  IF pairs = << >> THEN c
  ELSE IF c = Head(pairs)[1] THEN Head(pairs)[2]
  ELSE IF c = Head(pairs)[2] THEN Head(pairs)[1]
  ELSE TestPlugboardSwap(c, Tail(pairs))

TestNewRotor(wiring, notch, ringSetting, position) ==
  [wiring |-> wiring, notch |-> notch,
   ringSetting |-> ringSetting, position |-> position]

TestStep(r) == [r EXCEPT !.position = TestMod(r.position + 1, 26)]

TestAtNotch(r) == CharAt(TestAlphabet, r.position) = r.notch

TestForward(r, c) ==
  LET inputPos   == TestMod(indexOf(TestAlphabet, c) + r.position - r.ringSetting, 26)
      outputChar == CharAt(StringChars(r.wiring), inputPos)
      outputPos  == TestMod(indexOf(TestAlphabet, outputChar) - r.position + r.ringSetting, 26)
  IN  CharAt(TestAlphabet, outputPos)

TestBackward(r, c) ==
  LET inputPos  == TestMod(indexOf(TestAlphabet, c) + r.position - r.ringSetting, 26)
      wiringPos == indexOf(StringChars(r.wiring), CharAt(TestAlphabet, inputPos))
      outputPos == TestMod(wiringPos - r.position + r.ringSetting, 26)
  IN  CharAt(TestAlphabet, outputPos)

\* new TestEnigma(...): ROTORS[id].wiring throws when ROTORS[id] is undefined.
NewTestEnigma(rotorIDs, rotorPositions, ringSettings, plugboardPairs) ==
  IF \E i \in 1..Len(rotorIDs) : rotorIDs[i] \notin 0..(Len(TestROTORS) - 1)
  THEN TypeErrorThrown
  ELSE [rotors |-> [i \in 1..Len(rotorIDs) |->
                      TestNewRotor(TestROTORS[rotorIDs[i] + 1].wiring,
                                   TestROTORS[rotorIDs[i] + 1].notch,
                                   ArgOrDefault(ringSettings, i),
                                   ArgOrDefault(rotorPositions, i))],
        plugboardPairs |-> plugboardPairs,
        alphabet |-> TestAlphabet,
        REFLECTOR |-> TestREFLECTOR]

TestStepRotors(e) ==
  IF Len(e.rotors) < 3 THEN TypeErrorThrown ELSE
  LET middleAtNotch == TestAtNotch(e.rotors[2])
      r1 == IF TestAtNotch(e.rotors[3])
            THEN [e.rotors EXCEPT ![2] = TestStep(e.rotors[2])]
            ELSE e.rotors
      middleNowAtNotch == TestAtNotch(r1[2])
      r2 == IF middleAtNotch \/ middleNowAtNotch
            THEN [r1 EXCEPT ![1] = TestStep(r1[1]), ![2] = TestStep(r1[2])]
            ELSE r1
  IN  [e EXCEPT !.rotors = [r2 EXCEPT ![3] = TestStep(r2[3])]]

RECURSIVE TestForwardFrom(_, _, _)
TestForwardFrom(rotors, i, c) ==
  IF i < 1 THEN c
  ELSE CHOOSE r \in { TestForwardFrom(rotors, i - 1, x) :
                        x \in {TestForward(rotors[i], c)} } : TRUE

RECURSIVE TestBackwardFrom(_, _, _)
TestBackwardFrom(rotors, i, c) ==
  IF i > Len(rotors) THEN c
  ELSE CHOOSE r \in { TestBackwardFrom(rotors, i + 1, x) :
                        x \in {TestBackward(rotors[i], c)} } : TRUE

TestEncryptChar(e, c) ==
  IF ~includes(e.alphabet, c)
  THEN [e |-> e, c |-> c]
  ELSE IF TestStepRotors(e) = TypeErrorThrown THEN Threw(e)
  ELSE LET s  == TestStepRotors(e)
           c1 == TestPlugboardSwap(c, s.plugboardPairs)
           c2 == TestForwardFrom(s.rotors, Len(s.rotors), c1)
           c3 == CharAt(s.REFLECTOR, indexOf(s.alphabet, c2))
           c4 == TestBackwardFrom(s.rotors, 1, c3)
       IN  [e |-> s, c |-> TestPlugboardSwap(c4, s.plugboardPairs)]

(***************************************************************************)
(* The shipped class beside the tests' copy: instance A is an Enigma,      *)
(* instance B a TestEnigma constructed with the same arguments, and        *)
(* process is called with the same text on both; a step is one iteration   *)
(* of the map on each.  unit.out holds the characters joined so far, A's   *)
(* first; unit.threw tells which of the two calls has thrown.              *)
(***************************************************************************)
InitTwin ==
  /\ \E K \in ConfigChoices :
        /\ config = K
        /\ enigma = [m \in Machines |->
                       IF m = "A"
                       THEN NewEnigma(K.rotorIDs, K.rotorPositions,
                                      K.ringSettings, K.plugboardPairs)
                       ELSE NewTestEnigma(K.rotorIDs, K.rotorPositions,
                                          K.ringSettings, K.plugboardPairs)]
  /\ call = NoCall /\ prev = NoCall /\ last = NoCall
  /\ key = NoKey /\ thrown = NoCall
  /\ \E text \in Texts :
        unit = [fn |-> "twin", text |-> text, i |-> 0,
                out |-> << << >>, << >> >>, threw |-> <<FALSE, FALSE>>]

TwinStep ==
  /\ unit.fn = "twin"
  /\ enigma["A"] # TypeErrorThrown /\ enigma["B"] # TypeErrorThrown
  /\ unit.threw = <<FALSE, FALSE>>
  /\ unit.i < Len(unit.text)
  /\ \E ra \in { encryptChar(enigma["A"], CharAt(unit.text, unit.i)) },
        rb \in { TestEncryptChar(enigma["B"], CharAt(unit.text, unit.i)) } :
        /\ enigma' = [m \in Machines |-> IF m = "A" THEN ra.e ELSE rb.e]
        /\ unit' = [unit EXCEPT
                      !.i = @ + 1,
                      !.threw = << ra = Threw(enigma["A"]), rb = Threw(enigma["B"]) >>,
                      !.out = << IF ra = Threw(enigma["A"]) THEN @[1]
                                 ELSE join(@[1], ra.c),
                                 IF rb = Threw(enigma["B"]) THEN @[2]
                                 ELSE join(@[2], rb.c) >>]
  /\ UNCHANGED <<config, call, prev, last, key, thrown>>

NextTwin == TwinStep

SpecTwin == InitTwin /\ [][NextTwin]_vars

(***************************************************************************)
(* Vocabulary of the properties.                                           *)
(***************************************************************************)
Letters == { alphabet[k] : k \in 1..Len(alphabet) }

IsLetter(c) == c \in Letters

Uppercase(text) == \A k \in 1..Len(text) : IsLetter(text[k])

NumLetters(text) == Cardinality({ k \in 1..Len(text) : IsLetter(text[k]) })

\* The characters of the call in progress that encryptChar has been given.
Consumed == SubSeq(call.text, 1, call.i)

\* Each letter is in at most one pair.
ValidPlugboard(pairs) ==
  \A c \in Letters :
    Cardinality({ k \in 1..Len(pairs) : c \in {pairs[k][1], pairs[k][2]} }) <= 1

\* Three catalog rotors, positions and ring settings in [0,25], a plugboard
\* that names no letter twice.
ValidConfig(K) ==
  /\ Len(K.rotorIDs) = 3
  /\ \A i \in 1..3 : /\ K.rotorIDs[i] \in 0..(Len(ROTORS) - 1)
                     /\ K.rotorPositions[i] \in 0..25
                     /\ K.ringSettings[i] \in 0..25
  /\ ValidPlugboard(K.plugboardPairs)

\* Both calls are done.
BothDone == prev # NoCall /\ last # NoCall

\* The calls that are done.
DoneCalls == {prev, last} \ {NoCall}

(***************************************************************************)
(* C1  Reciprocity.  Under a valid configuration, when one instance has    *)
(* processed an uppercase message m into c and the other, identically      *)
(* constructed, instance has processed c, the second output is m.          *)
(***************************************************************************)
C1_Reciprocity ==
  ( /\ BothDone
    /\ ValidConfig(config)
    /\ Uppercase(prev.text)
    /\ last.mach # prev.mach
    /\ last.text = prev.out )
  => last.out = prev.text

\* A message of more than 26 letters under ring settings and plugs that are
\* not the defaults, with a left-rotor step on the way, has come back.
C1_Witness ==
  /\ BothDone
  /\ ValidConfig(config)
  /\ config.plugboardPairs # << >>
  /\ config.ringSettings # <<0, 0, 0>>
  /\ Uppercase(prev.text)
  /\ Len(prev.text) > 26
  /\ prev.end[1] # prev.start[1]
  /\ last.mach # prev.mach
  /\ last.text = prev.out
  /\ prev.out # prev.text
  /\ last.out = prev.text

(***************************************************************************)
(* C2  Passthrough.  In every call, done or in progress, under every       *)
(* configuration, a character of the input that is not one of A-Z stands   *)
(* in the output at the same index with the same value (lowercase letters  *)
(* included).                                                              *)
(***************************************************************************)
C2_Passthrough ==
  /\ \A d \in DoneCalls :
       \A k \in 1..Len(d.text) :
         ~IsLetter(d.text[k]) => k <= Len(d.out) /\ d.out[k] = d.text[k]
  /\ call # NoCall =>
       \A k \in 1..call.i :
         ~IsLetter(call.text[k]) => k <= Len(call.out) /\ call.out[k] = call.text[k]

\* The mixed text of the tests has been processed: digits, punctuation and
\* lowercase letters stand where they stood, the letters before them changed.
C2_Witness ==
  /\ prev # NoCall
  /\ Len(prev.text) = 16
  /\ prev.text[1] = "H" /\ prev.out[1] # "H"
  /\ prev.text[16] = "d" /\ prev.out[16] = "d"
  /\ prev.text[6] = "1" /\ prev.out[6] = "1"

(***************************************************************************)
(* C3  Length preservation.  The output of a finished process call has as  *)
(* many characters as its input (the empty input included), and a call in  *)
(* progress has produced one character per character consumed.             *)
(***************************************************************************)
C3_LengthPreserved ==
  /\ \A d \in DoneCalls : Len(d.out) = Len(d.text)
  /\ call # NoCall => Len(call.out) = call.i

\* The mixed text of the tests (5 letters among 16 characters) is done and
\* its output has 16 characters.
C3_Witness ==
  /\ prev # NoCall
  /\ Len(prev.text) = 16
  /\ NumLetters(prev.text) = 5
  /\ Len(prev.out) = 16

(***************************************************************************)
(* C4  Non-alphabetic no-op.  A step of process on a character outside     *)
(* A-Z leaves the position tuple of every instance as it was.              *)
(***************************************************************************)
C4_NonAlphaNoStep ==
  [][ ( /\ call # NoCall
        /\ call.i < Len(call.text)
        /\ ~IsLetter(CharAt(call.text, call.i)) )
      => \A m \in Machines : Positions(enigma'[m]) = Positions(enigma[m]) ]_vars

\* "123!@#" has been processed from positions that are not all zero: the
\* output is the input and the positions are the starting ones.
C4_Witness ==
  /\ prev # NoCall
  /\ prev.text = <<"1", "2", "3", "!", "@", "#">>
  /\ prev.out = prev.text
  /\ prev.start = <<5, 10, 15>>
  /\ prev.end = prev.start
  /\ Positions(enigma[prev.mach]) = prev.start

(***************************************************************************)
(* C5  The right rotor steps once per letter.  After k >= 1 letters of a   *)
(* call that started with the right rotor at p (and any number of other    *)
(* characters in between) the right rotor is at (p + k) mod 26, and before *)
(* the first letter it is at p.                                            *)
(***************************************************************************)
RightAfter(p, k) == IF k = 0 THEN p ELSE (p + k) % 26

\* C5: the right rotor of a call, in progress or done, is at RightAfter of
\* its start and the number of letters consumed.
C5_RightRotorSteps ==
  /\ ( call # NoCall /\ Len(call.start) >= 3 ) =>
       enigma[call.mach].rotors[3].position
         = RightAfter(call.start[3], NumLetters(Consumed))
  /\ \A d \in DoneCalls :
       Len(d.start) >= 3 => d.end[3] = RightAfter(d.start[3], NumLetters(d.text))

\* From [0,0,0], six letters and some other characters later, the right
\* rotor is at 6.
C5_Witness ==
  /\ call # NoCall
  /\ call.start = <<0, 0, 0>>
  /\ NumLetters(Consumed) = 6
  /\ enigma[call.mach].rotors[3].position = 6

(***************************************************************************)
(* C6  Double step.  With rotors I, II, III at [0,3,21], one letter leaves *)
(* the positions at [1,5,22].                                              *)
(***************************************************************************)
C6_DoubleStep ==
  ( /\ call # NoCall
    /\ config.rotorIDs = <<0, 1, 2>>
    /\ call.start = <<0, 3, 21>>
    /\ NumLetters(Consumed) = 1 )
  => Positions(enigma[call.mach]) = <<1, 5, 22>>

C6_Witness ==
  /\ call # NoCall
  /\ config.rotorIDs = <<0, 1, 2>>
  /\ call.start = <<0, 3, 21>>
  /\ call.i = 1
  /\ IsLetter(call.text[1])
  /\ Positions(enigma[call.mach]) = <<1, 5, 22>>

(***************************************************************************)
(* C7  No letter encrypts to itself.  Under a valid configuration, in      *)
(* every state an instance reaches, encryptChar of each of the 26 letters  *)
(* returns a letter of A-Z other than the one given (SpecKeys: every       *)
(* letter is a key in every state).                                        *)
(***************************************************************************)
C7_NoSelfEncryption ==
  ( key # NoKey /\ ValidConfig(config) /\ IsLetter(key.c) )
  => IsLetter(key.out) /\ key.out # key.c

\* A letter has been encrypted, after middle and left rotor have moved,
\* under plugs and ring settings.
C7_Witness ==
  /\ key # NoKey
  /\ ValidConfig(config)
  /\ config.plugboardPairs # << >>
  /\ config.ringSettings # <<0, 0, 0>>
  /\ key.n > 1
  /\ Positions(enigma["A"])[1] # config.rotorPositions[1]
  /\ IsLetter(key.c)
  /\ IsLetter(key.out)
  /\ key.out # key.c

(***************************************************************************)
(* C8  Determinism.  Two instances constructed with the same arguments and *)
(* given the same text return the same output and end in the same          *)
(* positions.                                                              *)
(***************************************************************************)
C8_Determinism ==
  ( /\ BothDone
    /\ last.mach # prev.mach
    /\ last.text = prev.text )
  => /\ last.out = prev.out
     /\ last.end = prev.end

C8_Witness ==
  /\ BothDone
  /\ last.mach # prev.mach
  /\ last.text = prev.text
  /\ NumLetters(prev.text) > 1
  /\ prev.out # prev.text
  /\ last.out = prev.out
  /\ last.end = prev.end
  /\ prev.end # prev.start

(***************************************************************************)
(* C9  Historical stepping.  One keystroke takes the position tuple where  *)
(* the Enigma I mechanism takes it from the positions before the           *)
(* keystroke: right by one; middle by one if the right or the middle rotor *)
(* is at its notch; left by one iff the middle rotor is at its notch.      *)
(***************************************************************************)
\* The Enigma I mechanism on position tuple p of the rotors ids.
HistoricalStep(ids, p) ==
  LET rightAtNotch  == p[3] = NotchPos(ids[3])
      middleAtNotch == p[2] = NotchPos(ids[2])
  IN  << IF middleAtNotch THEN (p[1] + 1) % 26 ELSE p[1],
         IF rightAtNotch \/ middleAtNotch THEN (p[2] + 1) % 26 ELSE p[2],
         (p[3] + 1) % 26 >>

\* C9: after the first letter of a call the positions are HistoricalStep of
\* the positions the call started from.
C9_HistoricalStepping ==
  ( /\ call # NoCall
    /\ ValidConfig(config)
    /\ NumLetters(Consumed) = 1 )
  => Positions(enigma[call.mach]) = HistoricalStep(config.rotorIDs, call.start)

(***************************************************************************)
(* C10  process never resets.  A call on an instance starts from the       *)
(* positions the earlier call on that instance left, and when that earlier *)
(* call consumed at least one letter (and fewer than a full period of the  *)
(* positions, which every text of the model is) these differ from the      *)
(* positions the earlier call started from.                                *)
(***************************************************************************)
C10_NoReset ==
  /\ ( call # NoCall /\ prev # NoCall /\ call.mach = prev.mach )
       => call.start = prev.end
  /\ ( BothDone /\ last.mach = prev.mach )
       => /\ last.start = prev.end
          /\ NumLetters(prev.text) >= 1 => last.start # prev.start

\* The same instance was given its own ciphertext of an uppercase message
\* and did not return the message.
C10_Witness ==
  /\ BothDone
  /\ last.mach = prev.mach
  /\ ValidConfig(config)
  /\ Uppercase(prev.text)
  /\ Len(prev.text) > 0
  /\ last.text = prev.out
  /\ last.out # prev.text

(***************************************************************************)
(* Vocabulary of the construction claims.                                  *)
(***************************************************************************)
\* Every position and ring setting given is an integer of [0,25].
RangeOK(K) ==
  /\ \A i \in 1..Len(K.rotorPositions) : K.rotorPositions[i] \in 0..25
  /\ \A i \in 1..Len(K.ringSettings) : K.ringSettings[i] \in 0..25

\* Some identifier given is not one of the catalog.
UnknownRotorID(K) == \E i \in 1..Len(K.rotorIDs) : NoRotorSpec(K.rotorIDs[i])

\* Construction threw: there is no instance, and nothing was ever called.
ConstructionFailed ==
  /\ \A m \in Machines : enigma[m] = TypeErrorThrown
  /\ call = NoCall /\ prev = NoCall /\ last = NoCall
  /\ thrown = NoCall /\ key = NoKey

(***************************************************************************)
(* C11  Range check.  With a position or a ring setting outside [0,25]     *)
(* construction fails: there is no machine and no text is processed.       *)
(***************************************************************************)
C11_RangeRejected == ~RangeOK(config) => ConstructionFailed

(***************************************************************************)
(* C12  Rotor count.  With a number of rotor identifiers other than three  *)
(* construction fails: there is no machine that could throw or             *)
(* mis-encrypt later, and no output.                                       *)
(***************************************************************************)
C12_RotorCountRejected == Len(config.rotorIDs) # 3 => ConstructionFailed

(***************************************************************************)
(* C13  Unknown rotor.  With a rotor identifier outside the catalog        *)
(* construction throws: no instance exists and no character is processed   *)
(* in any state.                                                           *)
(***************************************************************************)
C13_UnknownRotorRejected == UnknownRotorID(config) => ConstructionFailed

\* Three identifiers, one of them outside the catalog, in-range settings:
\* the constructor threw.
C13_Witness ==
  /\ Len(config.rotorIDs) = 3
  /\ UnknownRotorID(config)
  /\ RangeOK(config)
  /\ \A m \in Machines : enigma[m] = TypeErrorThrown

(***************************************************************************)
(* C14  Stepping transition function.  One call of stepRotors from         *)
(* (l, m, r) under any rotor selection gives r' = (r+1) mod 26,            *)
(* m' = (m+a+d) mod 26, l' = (l+d) mod 26, with a = 1 iff the right rotor  *)
(* was at its notch and d = 1 iff the middle rotor was at its notch or is  *)
(* at its notch at (m+a) mod 26.                                           *)
(***************************************************************************)
C14_StepFunction ==
  ( unit.fn = "stepRotors" /\ unit.n >= 1 ) =>
    LET ids == config.rotorIDs
        l == unit.before[1]
        m == unit.before[2]
        r == unit.before[3]
        a == IF r = NotchPos(ids[3]) THEN 1 ELSE 0
        d == IF m = NotchPos(ids[2]) \/ (m + a) % 26 = NotchPos(ids[2])
             THEN 1 ELSE 0
    IN  Positions(enigma["A"]) = << (l + d) % 26, (m + a + d) % 26, (r + 1) % 26 >>

\* From [25,3,21] under rotors I, II, III: the right rotor's notch moves the
\* middle rotor onto its own notch, the re-check moves it again with the
\* left rotor, which wraps.
C14_Witness ==
  /\ unit.fn = "stepRotors" /\ unit.n = 1
  /\ config.rotorIDs = <<0, 1, 2>>
  /\ unit.before = <<25, 3, 21>>
  /\ Positions(enigma["A"]) = <<0, 5, 22>>

(***************************************************************************)
(* The substitution of a machine of three rotors in the state e, written   *)
(* out stage by stage: plugboard, right, middle and left rotor forward,    *)
(* reflector, left, middle and right rotor backward, plugboard.            *)
(***************************************************************************)
Pipeline(e, c) ==
  CHOOSE y \in
    { plugboardSwap(x8, e.plugboardPairs) : x8 \in
    { backward(e.rotors[3], x7) : x7 \in
    { backward(e.rotors[2], x6) : x6 \in
    { backward(e.rotors[1], x5) : x5 \in
    { CharAt(REFLECTOR, indexOf(alphabet, x4)) : x4 \in
    { forward(e.rotors[1], x3) : x3 \in
    { forward(e.rotors[2], x2) : x2 \in
    { forward(e.rotors[3], x1) : x1 \in
    { plugboardSwap(c, e.plugboardPairs) } } } } } } } } } : TRUE

\* The step about to be taken gives a letter to encryptChar.
LetterStep ==
  /\ call # NoCall
  /\ call.i < Len(call.text)
  /\ IsLetter(CharAt(call.text, call.i))

(***************************************************************************)
(* C15  Stepping precedes substitution.  A step on a letter, on a machine   *)
(* of three rotors, moves the rotors of the instance by one stepRotors     *)
(* transition and appends the substitution of the letter under the stepped *)
(* positions; every step that is not on a letter leaves all positions as   *)
(* they are.                                                               *)
(***************************************************************************)
C15_StepThenSubstitute ==
  [][ IF LetterStep
      THEN Len(call.start) = 3 =>
           /\ enigma'[call.mach] = stepRotors(enigma[call.mach])
           /\ call' # NoCall
           /\ call'.out = Append(call.out,
                                 Pipeline(enigma'[call.mach],
                                          CharAt(call.text, call.i)))
      ELSE \A m \in Machines :
             enigma[m] # TypeErrorThrown =>
               Positions(enigma'[m]) = Positions(enigma[m]) ]_vars

\* The first letter of a call has been encrypted: the positions are not the
\* starting ones and the letter returned is the substitution under the
\* stepped positions, which the starting positions would not have given.
C15_Witness ==
  /\ call # NoCall
  /\ call.i = 1
  /\ IsLetter(call.text[1])
  /\ ValidConfig(config)
  /\ Positions(enigma[call.mach]) # call.start
  /\ call.out = << Pipeline(enigma[call.mach], call.text[1]) >>
  /\ call.out # << Pipeline(NewEnigma(config.rotorIDs, call.start,
                                      config.ringSettings,
                                      config.plugboardPairs), call.text[1]) >>

(***************************************************************************)
(* C16  Pipeline composition.  The character encryptChar returns for a     *)
(* letter on a machine of three rotors is the stage-by-stage substitution  *)
(* (Pipeline) of that letter under the positions the call leaves, which    *)
(* are the stepped ones.                                                   *)
(***************************************************************************)
C16_PipelineComposition ==
  ( /\ key # NoKey
    /\ IsLetter(key.c)
    /\ Len(config.rotorIDs) = 3 )
  => key.out = Pipeline(enigma["A"], key.c)

\* A letter in a plug pair has been encrypted under ring settings, after
\* the left rotor has moved, and came out as a letter in a plug pair.
C16_Witness ==
  /\ key # NoKey
  /\ ValidConfig(config)
  /\ config.plugboardPairs = << <<"A", "B">>, <<"C", "D">> >>
  /\ config.ringSettings # <<0, 0, 0>>
  /\ key.c = "A"
  /\ key.out \in {"C", "D"}
  /\ Positions(enigma["A"])[1] # config.rotorPositions[1]
  /\ key.out = Pipeline(enigma["A"], key.c)

(***************************************************************************)
(* C17  forward and backward are inverses.  On each catalog rotor, at      *)
(* every position and ring setting of [0,25] and for every letter c,       *)
(* backward of forward of c is c and forward of backward of c is c; each   *)
(* single call returns a letter, and no call changes the rotor.            *)
(***************************************************************************)
C17_ForwardBackwardInverse ==
  unit.fn = "Rotor" =>
    /\ unit.calls \in { <<"forward", "backward">>, <<"backward", "forward">> }
         => unit.out = unit.c
    /\ IsLetter(unit.out)
    /\ \E id \in CatalogIDs :
         /\ unit.rotor.wiring = RotorSpec(id).wiring
         /\ unit.rotor.notch = RotorSpec(id).notch
    /\ unit.rotor.position \in PositionRange
    /\ unit.rotor.ringSetting \in PositionRange

\* Rotor II at position 17 with ring setting 5: forward took G to another
\* letter and backward took that one back to G.
C17_Witness ==
  /\ unit.fn = "Rotor"
  /\ unit.rotor.wiring = RotorSpec(1).wiring
  /\ unit.rotor.position = 17
  /\ unit.rotor.ringSetting = 5
  /\ unit.c = "G"
  /\ unit.calls = <<"forward", "backward">>
  /\ unit.out = "G"
  /\ forward(unit.rotor, "G") # "G"

(***************************************************************************)
(* Vocabulary of the plugboard claims.                                     *)
(***************************************************************************)
\* The indexes of the pairs that hold c.
PairsWith(c, pairs) ==
  { k \in 1..Len(pairs) : c \in {pairs[k][1], pairs[k][2]} }

\* The other letter of the first pair, in list order, that holds c; c itself
\* when no pair holds it.
FirstPartner(c, pairs) ==
  IF PairsWith(c, pairs) = {} THEN c
  ELSE LET k == CHOOSE j \in PairsWith(c, pairs) :
                  \A i \in PairsWith(c, pairs) : j <= i
       IN  IF pairs[k][1] = c THEN pairs[k][2] ELSE pairs[k][1]

(***************************************************************************)
(* C18  The plugboard swap is an involution.  Under a pair list in which   *)
(* each letter is in at most one pair, two swaps in a row return the       *)
(* letter they started from, and a letter in no pair is returned by every  *)
(* swap.                                                                   *)
(***************************************************************************)
C18_SwapInvolution ==
  ( unit.fn = "plugboardSwap" /\ ValidPlugboard(config.plugboardPairs) ) =>
    /\ unit.n = 2 => unit.out = unit.c
    /\ PairsWith(unit.c, config.plugboardPairs) = {} => unit.out = unit.c

\* Under the pairs AB, CD: B went to A and came back.
C18_Witness ==
  /\ unit.fn = "plugboardSwap"
  /\ config.plugboardPairs = << <<"A", "B">>, <<"C", "D">> >>
  /\ unit.c = "B"
  /\ unit.n = 2
  /\ unit.out = "B"
  /\ plugboardSwap("B", enigma["A"].plugboardPairs) = "A"

(***************************************************************************)
(* C19  Ambiguous plugboard.  With a letter in more than one pair the      *)
(* constructor returns a machine holding the list as given, and one swap   *)
(* of any letter returns its partner in the first pair, in list order,     *)
(* that holds it.                                                          *)
(***************************************************************************)
C19_FirstPairWins ==
  ( unit.fn = "plugboardSwap" /\ ~ValidPlugboard(config.plugboardPairs) ) =>
    /\ \A m \in Machines :
         /\ enigma[m] # TypeErrorThrown
         /\ enigma[m].plugboardPairs = config.plugboardPairs
    /\ unit.n = 1 => unit.out = FirstPartner(unit.c, config.plugboardPairs)

\* Under the pairs AB, CA: A went to B, its partner in the first pair, and
\* not to C.
C19_Witness ==
  /\ unit.fn = "plugboardSwap"
  /\ config.plugboardPairs = << <<"A", "B">>, <<"C", "A">> >>
  /\ enigma["A"].plugboardPairs = config.plugboardPairs
  /\ unit.c = "A"
  /\ unit.n = 1
  /\ unit.out = "B"

(***************************************************************************)
(* C20  The reflector is an involution without fixed points.  One lookup   *)
(* of a letter returns a different letter, a second lookup returns the     *)
(* first letter, whatever the rotors hold, and the lookups leave every     *)
(* instance as the constructor made it.                                    *)
(***************************************************************************)
C20_ReflectorInvolution ==
  unit.fn = "REFLECTOR" =>
    /\ unit.n = 1 => IsLetter(unit.out) /\ unit.out # unit.c
    /\ unit.n = 2 => unit.out = unit.c
    /\ \A m \in Machines :
         enigma[m] = NewEnigma(config.rotorIDs, config.rotorPositions,
                               config.ringSettings, config.plugboardPairs)

\* Beside a machine at [5,10,15] with ring settings and plugs: Z went to T
\* and came back.
C20_Witness ==
  /\ unit.fn = "REFLECTOR"
  /\ config.rotorPositions = <<5, 10, 15>>
  /\ config.ringSettings = <<3, 7, 11>>
  /\ config.plugboardPairs # << >>
  /\ unit.c = "Z"
  /\ unit.n = 2
  /\ unit.out = "Z"
  /\ Reflect("Z") = "T"

(***************************************************************************)
(* C21  Position range.  On a machine constructed with every position in   *)
(* [0,25], every rotor position is an integer of [0,25] after any number   *)
(* of encryptChar calls; a rotor at 25 steps to 0, not to 26.              *)
(***************************************************************************)
C21_PositionRange ==
  ( /\ enigma["A"] # TypeErrorThrown
    /\ \A i \in 1..Len(config.rotorPositions) :
         config.rotorPositions[i] \in PositionRange )
  => \A i \in 1..Len(enigma["A"].rotors) :
       enigma["A"].rotors[i].position \in PositionRange

\* The left rotor started at 25 and has stepped: it is at 0.
C21_Witness ==
  /\ ValidConfig(config)
  /\ config.rotorPositions[1] = 25
  /\ key.n = 1
  /\ IsLetter(key.c)
  /\ enigma["A"].rotors[1].position = 0

(***************************************************************************)
(* C22  The configuration does not change.  In every state every instance  *)
(* has the rotors of its construction in the same order, each with the     *)
(* wiring, notch and ring setting it was given, and the plugboard pair     *)
(* list it was given: positions are all that process changes.              *)
(***************************************************************************)
C22_ConfigImmutable ==
  \A m \in Machines :
    enigma[m] # TypeErrorThrown =>
      LET made == NewEnigma(config.rotorIDs, config.rotorPositions,
                            config.ringSettings, config.plugboardPairs)
      IN  /\ Len(enigma[m].rotors) = Len(made.rotors)
          /\ \A i \in 1..Len(made.rotors) :
               /\ enigma[m].rotors[i].wiring = made.rotors[i].wiring
               /\ enigma[m].rotors[i].notch = made.rotors[i].notch
               /\ enigma[m].rotors[i].ringSetting = made.rotors[i].ringSetting
          /\ enigma[m].plugboardPairs = made.plugboardPairs

\* Two calls are done on a machine with ring settings and plugs: all three
\* positions have moved, the ring settings are the ones given.
C22_Witness ==
  /\ BothDone
  /\ last.mach = prev.mach
  /\ ValidConfig(config)
  /\ config.ringSettings = <<3, 7, 11>>
  /\ config.plugboardPairs # << >>
  /\ \A i \in 1..3 : last.end[i] # config.rotorPositions[i]
  /\ \A i \in 1..3 :
       enigma[last.mach].rotors[i].ringSetting = config.ringSettings[i]
  /\ enigma[last.mach].plugboardPairs = config.plugboardPairs

(***************************************************************************)
(* C25  The middle rotor never rests at its notch.  After a stepRotors     *)
(* call, from any position tuple under any rotor selection, atNotch of the *)
(* middle rotor is false.                                                  *)
(***************************************************************************)
C25_MiddleOffNotch ==
  ( unit.fn = "stepRotors" /\ unit.n >= 1 ) => ~atNotch(enigma["A"].rotors[2])

\* The middle rotor II started at its notch E (4): one call later it is at
\* 5 and the left rotor has moved.
C25_Witness ==
  /\ unit.fn = "stepRotors" /\ unit.n = 1
  /\ config.rotorIDs = <<0, 1, 2>>
  /\ unit.before = <<7, 4, 0>>
  /\ Positions(enigma["A"]) = <<8, 5, 1>>
  /\ ~atNotch(enigma["A"].rotors[2])

(***************************************************************************)
(* C29  Reciprocity of mixed text.  Under a valid configuration, when one  *)
(* instance has processed any text m into c and the other instance has     *)
(* processed c, the second output is m and both instances are at the same  *)
(* positions.                                                              *)
(***************************************************************************)
C29_MixedReciprocity ==
  ( /\ BothDone
    /\ ValidConfig(config)
    /\ last.mach # prev.mach
    /\ last.text = prev.out )
  => /\ last.out = prev.text
     /\ last.end = prev.end
     /\ Positions(enigma[last.mach]) = Positions(enigma[prev.mach])

\* "HELLO123!@#world" under ring settings and plugs has come back, its
\* five uppercase letters changed on the way.
C29_Witness ==
  /\ BothDone
  /\ ValidConfig(config)
  /\ config.ringSettings # <<0, 0, 0>>
  /\ config.plugboardPairs # << >>
  /\ last.mach # prev.mach
  /\ Len(prev.text) = 16
  /\ NumLetters(prev.text) = 5
  /\ \A k \in 1..5 : prev.out[k] # prev.text[k]
  /\ last.text = prev.out
  /\ last.out = prev.text
  /\ last.end = prev.end

(***************************************************************************)
(* C30  Reciprocity under any plugboard the constructor accepts.  With     *)
(* three catalog rotors and settings in [0,25], whatever the pair list (a  *)
(* letter in two pairs included), when one instance has processed an       *)
(* uppercase message m into c and the other has processed c, the second    *)
(* output is m.                                                            *)
(***************************************************************************)
C30_AnyPlugboardReciprocity ==
  ( /\ BothDone
    /\ Len(config.rotorIDs) = 3
    /\ ~UnknownRotorID(config)
    /\ RangeOK(config)
    /\ Uppercase(prev.text)
    /\ last.mach # prev.mach
    /\ last.text = prev.out )
  => last.out = prev.text

(***************************************************************************)
(* C26  Every rotor keeps moving.  Under an endless stream of letters the  *)
(* position of the left, of the middle and of the right rotor changes      *)
(* again and again, and the middle rotor is never left unmoved by 26       *)
(* keystrokes in a row.                                                    *)
(***************************************************************************)
C26_RotorsKeepMoving ==
  /\ [](unit.fn = "stream" => unit.idle < 26)
  /\ []<><<enigma'["A"].rotors[1].position # enigma["A"].rotors[1].position>>_vars
  /\ []<><<enigma'["A"].rotors[2].position # enigma["A"].rotors[2].position>>_vars
  /\ []<><<enigma'["A"].rotors[3].position # enigma["A"].rotors[3].position>>_vars

\* All three rotors have left their starting positions and the middle one
\* has now stood still for 25 keystrokes.
C26_Witness ==
  /\ unit.fn = "stream"
  /\ unit.idle = 25
  /\ \A i \in 1..3 : enigma["A"].rotors[i].position # config.rotorPositions[i]

\* The places of text that hold a letter of A-Z, in order.
LetterPlaces(text) ==
  LET AtLetter(k) == IsLetter(text[k])
  IN  SelectSeq([k \in 1..Len(text) |-> k], AtLetter)

\* The characters of out at the places where text holds a letter.
AtLetters(out, text) ==
  [i \in 1..Len(LetterPlaces(text)) |-> out[LetterPlaces(text)[i]]]

\* The number of letters of text before place k.
LettersBefore(text, k) == NumLetters(SubSeq(text, 1, k - 1))

(***************************************************************************)
(* C23  Characters outside A-Z do not influence the letters.  When one     *)
(* instance has processed a text m and a fresh instance of the same        *)
(* configuration has processed m without its characters outside A-Z, the   *)
(* output of the first call at the places where m holds a letter is, in    *)
(* order, the output of the second call; and in two calls on fresh          *)
(* instances of one configuration, the same letter after the same number   *)
(* of letters gets the same ciphertext.                                    *)
(***************************************************************************)
C23_NonLettersNoInfluence ==
  ( /\ unit.fn = "process" /\ unit.n = 2
    /\ BothDone )
  => /\ last.text = StripNonLetters(prev.text)
          => AtLetters(prev.out, prev.text) = last.out
     /\ \A k1 \in 1..Len(prev.text), k2 \in 1..Len(last.text) :
          ( /\ IsLetter(prev.text[k1])
            /\ last.text[k2] = prev.text[k1]
            /\ LettersBefore(last.text, k2) = LettersBefore(prev.text, k1) )
          => last.out[k2] = prev.out[k1]

\* A text with a character outside A-Z between two letters is done under
\* ring settings and plugs, and so is the text without that character.
C23_Witness ==
  /\ unit.fn = "process" /\ unit.n = 2
  /\ BothDone
  /\ config.ringSettings # <<0, 0, 0>>
  /\ config.plugboardPairs # << >>
  /\ \E k \in 2..(Len(prev.text) - 1) :
        /\ ~IsLetter(prev.text[k])
        /\ IsLetter(prev.text[k - 1])
        /\ IsLetter(prev.text[k + 1])
  /\ last.text = StripNonLetters(prev.text)
  /\ Len(last.text) < Len(prev.text)
  /\ AtLetters(prev.out, prev.text) = last.out
  /\ last.out # last.text
  /\ prev.end # prev.start

(***************************************************************************)
(* C27  Chunking invariance.  When one instance has processed a + b in one *)
(* call and a fresh instance of the same configuration has processed a and *)
(* then b, the output of the one call is the two outputs joined, and both  *)
(* instances are at the same positions.                                    *)
(***************************************************************************)
C27_ChunkingInvariance ==
  ( /\ unit.fn = "process" /\ unit.n = 3
    /\ call = NoCall /\ thrown = NoCall )
  => /\ prev.text = unit.chunk.text \o last.text
     /\ prev.out = unit.chunk.out \o last.out
     /\ last.end = prev.end
     /\ Positions(enigma[last.mach]) = Positions(enigma[prev.mach])

\* Both parts hold a letter, and the second part found the rotors where
\* the first part left them.
C27_Witness ==
  /\ unit.fn = "process" /\ unit.n = 3
  /\ call = NoCall /\ thrown = NoCall
  /\ NumLetters(unit.chunk.text) > 0
  /\ NumLetters(last.text) > 0
  /\ last.mach = unit.chunk.mach
  /\ last.mach # prev.mach
  /\ last.start = unit.chunk.end
  /\ last.start # unit.chunk.start
  /\ prev.out = unit.chunk.out \o last.out
  /\ prev.out # prev.text
  /\ last.end = prev.end

\* Both callers have given their whole message.
CallersDone == \A k \in Callers : unit.i[k] = Len(unit.texts[k])

\* The letters the callers of instance mach have given so far.
LettersGivenTo(mach) ==
  LET n(k) == IF InstanceOf(k) = mach
              THEN NumLetters(SubSeq(unit.texts[k], 1, unit.i[k])) ELSE 0
  IN  n(1) + n(2)

(***************************************************************************)
(* C24  One instance per caller.  With an instance of its own, what a      *)
(* caller has received is, whatever the other caller has done, the         *)
(* beginning of what process returns for the caller's message on an        *)
(* exclusively owned instance of the same configuration; on a shared       *)
(* instance the rotors have stepped for the letters of both callers.  The  *)
(* witness is an interleaving on a shared instance after which a caller    *)
(* has received something else than the exclusive instance returns.        *)
(***************************************************************************)
C24_OwnInstanceIndependent ==
  unit.fn = "callers" =>
    /\ ~unit.shared =>
          \A k \in Callers :
            unit.out[k] = SubSeq(ProcessAlone(config, unit.texts[k]), 1, unit.i[k])
    /\ \A mach \in Machines :
          Positions(enigma[mach])[3]
            = RightAfter(config.rotorPositions[3], LettersGivenTo(mach))

\* Both callers are done on the shared instance, and each has received
\* ciphertext that differs from what an instance of its own returns.
C24_Witness ==
  /\ unit.fn = "callers"
  /\ unit.shared
  /\ CallersDone
  /\ Len(unit.out[1]) = Len(unit.texts[1])
  /\ unit.out[1] # ProcessAlone(config, unit.texts[1])
  /\ unit.out[2] # ProcessAlone(config, unit.texts[2])

(***************************************************************************)
(* C28  The tests' copy behaves as the shipped class.  For the same        *)
(* constructor arguments both constructors throw or neither does, and      *)
(* after every character of the same text Enigma and TestEnigma have       *)
(* joined the same output, stand at the same rotor positions, and have     *)
(* thrown or not thrown alike.                                             *)
(***************************************************************************)
C28_TestCopyEquivalent ==
  unit.fn = "twin" =>
    /\ (enigma["A"] = TypeErrorThrown) <=> (enigma["B"] = TypeErrorThrown)
    /\ enigma["A"] # TypeErrorThrown =>
          /\ unit.out[1] = unit.out[2]
          /\ unit.threw[1] = unit.threw[2]
          /\ Positions(enigma["A"]) = Positions(enigma["B"])

\* The long message is through both under ring settings and plugs, after
\* the middle rotor has moved, and both hold the same ciphertext.
C28_Witness ==
  /\ unit.fn = "twin"
  /\ enigma["A"] # TypeErrorThrown
  /\ config.ringSettings # <<0, 0, 0>>
  /\ config.plugboardPairs # << >>
  /\ unit.i = Len(unit.text)
  /\ NumLetters(unit.text) > 26
  /\ unit.out[1] = unit.out[2]
  /\ unit.out[1] # unit.text
  /\ Positions(enigma["B"])[2] # config.rotorPositions[2]
  /\ Positions(enigma["A"]) = Positions(enigma["B"])

====
